---------------------------- MODULE Spec2Model ----------------------------
(***************************************************************************)
(* State-machine model of the general_mutex crate: the Mutex trait         *)
(* (src/src/mutex.rs) and its four implementations                         *)
(*   "context" : types/context_mutex.rs  (context-verified mutex)          *)
(*   "std"     : types/std_mutex.rs      (std::sync::Mutex<RefCell<Data>>) *)
(*   "spin"    : types/spin.rs           (spin::Mutex<RefCell<Data>>)      *)
(*   "cs"      : types/critical_section.rs                                 *)
(* One mutex instance is modelled.  For the thread-based implementations   *)
(* the callers are threads; for the context-verified mutex there is one    *)
(* core (thread 1) whose execution level changes by preemption.            *)
(***************************************************************************)
EXTENDS Integers, Sequences, FiniteSets, TLC

\* ----------------------------------------------------------------- bounds
NumThreads == 2       \* threads calling the accessors (std / spin / cs)
NumLevels  == 2       \* execution levels 0 .. NumLevels-1, 0 the most urgent
MaxVal     == 1       \* initial values and written values are 0 .. MaxVal
MaxCalls   == 3       \* accessor calls made in one behaviour
MaxDepth   == 2       \* closures nested on one call stack
MaxNest    == 1       \* preemptions nested on the core

\* -------------------------------------------------------------- constants
RetVal == 255         \* the value the conformance closures return
Unit   == 0 - 1       \* stands for the unit value ()

Threads == 1 .. NumThreads
Levels  == 0 .. (NumLevels - 1)
Values  == 0 .. MaxVal
Kinds   == {"context", "std", "spin", "cs"}
Ops     == {"lock", "lock_mut"}

\* Closures handed to the accessors.
\*   id   : |counter| *counter                    (examples, get_counter)
\*   flag : |flag| { flag.store(true); 255 }      (tests.rs test_lock)
\*   inc  : |counter| { *counter += 1; }          (examples, increment_counter)
\*   set  : |d| { *d = w; }
\*   rec  : |_| { mutex.<accessor>(..); }         (tests.rs test_recursive_lock)
Fn(n, w)  == [name |-> n, w |-> w]
ReadFns   == {Fn("id", 0), Fn("flag", 0), Fn("rec", 0)}
WriteFns  == {Fn("inc", 0), Fn("flag", 0), Fn("rec", 0)} \cup {Fn("set", w) : w \in Values}
FnsOf(op) == IF op = "lock" THEN ReadFns ELSE WriteFns

VARIABLES
    kind,       \* which implementation the instance is
    cfg_test,   \* TRUE when built with cfg(test)
    LEVEL,      \* const generic LEVEL of the context-verified mutex
    init,       \* the value given to new
    data,       \* the protected value
    FLAG,       \* the static AtomicBool the conformance closures store to
    owner,      \* thread holding the std / spin lock, 0 when unheld
    poisoned,   \* std::sync::Mutex poison flag
    borrow,     \* RefCell borrow flag: 0 unused, n > 0 shared, -1 exclusive
    csOwner,    \* thread inside the critical section, 0 when none
    csDepth,    \* nesting depth of the critical section
    level,      \* what Interface::get_current_level() returns now
    istack,     \* preempted levels, each with the call-stack depth at preemption
    stack,      \* per thread: the accessor calls in progress, innermost last
    ncalls,     \* accessor calls made so far
    started,    \* threads that have made a call; they are numbered in that order
    expect,     \* the closures of the granted lock_mut calls, applied in call
                \* order to the value given to new
    clean,      \* no call was made while a closure of the same stack was active
    ended,      \* the calls ended by the latest return or panic, origin first
    instances,  \* mutex values of the one type in use: 1, or 2 (SpecPair)
    other,      \* the second instance: the value given to its new, its value
    dec         \* per instance and level: the decisions taken for calls at it

vars == <<kind, cfg_test, LEVEL, init, data, FLAG, owner, poisoned, borrow,
          csOwner, csDepth, level, istack, stack, ncalls, started, expect, clean,
          ended, instances, other, dec>>

\* ------------------------------------------------------------ pure helpers
Last(s)  == s[Len(s)]
Front(s) == SubSeq(s, 1, Len(s) - 1)

NoErr == [kind |-> "none", args |-> <<>>]
Err(k) == [kind |-> k, args |-> <<>>]

\* panic!("Attempted to lock Mutex in level {:?} from level {:?}", LEVEL, current_level)
WrongContextPanic_Swapped(expected, observed) ==
    [kind |-> "WrongContext", args |-> <<observed, expected>>]
WrongContextPanic(expected, observed) ==
    [kind |-> "WrongContext", args |-> <<expected, observed>>]

\* if current_level != LEVEL { panic!(..) } : TRUE when the access may proceed
ContextCheck_Never(current_level) == FALSE
ContextCheck_Always(current_level) == TRUE
ContextCheck_Sticky(current_level) ==
    current_level = LEVEL /\ \A i \in 1 .. Len(ended) : ended[i].outcome # "panicked"
ContextCheck(current_level) == current_level = LEVEL

\* What the closures do with the value they are handed.
ClosureData(f, d) ==
    CASE f.name = "inc" -> d + 1
      [] f.name = "set" -> f.w
      [] OTHER          -> d
ClosureRet(f, d) ==
    CASE f.name = "id"   -> d
      [] f.name = "flag" -> RetVal
      [] OTHER           -> Unit
ClosureFlag(f, b) == IF f.name = "flag" THEN TRUE ELSE b

\* f(unsafe { &*self.data.get() }) / f(&lock.borrow()): the closure reads the value
LockBody(f, d) == [data |-> d, ret |-> ClosureRet(f, d)]

\* f(unsafe { &mut *self.data.get() }) / f(&mut lock.borrow_mut()): the closure
\* works on the protected value itself
LockMutBody_Copy(f, d) == [data |-> d, ret |-> ClosureRet(f, ClosureData(f, d))]
LockMutBody(f, d) == [data |-> ClosureData(f, d), ret |-> ClosureRet(f, ClosureData(f, d))]

\* The accessor's value is the closure's value (the call of f is the tail expression).
AccessorResult_Dropped(fr) == Unit
AccessorResult(fr) == fr.cret

\* new(data): the protected value of a fresh instance
New_Default(v) == 0
New(v) == v


\* ------------------------------------------------- acquiring the instance
Grant      == [o |-> "grant", err |-> NoErr, guard |-> FALSE]
Wait       == [o |-> "wait",  err |-> NoErr, guard |-> FALSE]
Panic(e)   == [o |-> "panic", err |-> e, guard |-> FALSE]
PanicHeld(e) == [o |-> "panic", err |-> e, guard |-> TRUE]

\* The locked state that try_lock() and lock() test.
Held_Never == FALSE
Held == owner # 0

\* let current_level = Interface::get_current_level();
\* if current_level != LEVEL { panic!(.., LEVEL, current_level) }
ContextAcquire_Unchecked == {Grant}
ContextAcquire_Blocking == IF ContextCheck(level) THEN {Grant} ELSE {Wait}
ContextAcquire_Guarded ==
    IF ~ContextCheck(level) THEN {Panic(WrongContextPanic(LEVEL, level))}
    ELSE IF stack[1] # <<>> THEN {Panic(Err("Reentered"))}
    ELSE {Grant}
ContextAcquire ==
    IF ContextCheck(level) THEN {Grant}
    ELSE {Panic(WrongContextPanic(LEVEL, level))}

\* #[cfg(test)] self.0.try_lock().unwrap()
\* std: Err(WouldBlock) when locked, Err(Poisoned(guard)) when poisoned;
\* spin: None when locked.
TryLockUnwrap_Blocking ==
    IF Held THEN {Wait}
    ELSE IF kind = "std" /\ poisoned THEN {PanicHeld(Err("Poisoned"))}
    ELSE {Grant}
TryLockUnwrap ==
    IF Held THEN {Panic(Err(IF kind = "std" THEN "WouldBlock" ELSE "UnwrapNone"))}
    ELSE IF kind = "std" /\ poisoned THEN {PanicHeld(Err("Poisoned"))}
    ELSE {Grant}

\* #[cfg(not(test))] self.0.lock().unwrap()  (std)  /  self.0.lock()  (spin)
\* A locked mutex makes the caller wait.  Locking a std mutex again from the
\* thread that holds it never returns: it waits forever or panics.  A spin
\* mutex spins forever.
BlockingLock(t) ==
    IF ~Held
    THEN IF kind = "std" /\ poisoned THEN {PanicHeld(Err("Poisoned"))} ELSE {Grant}
    ELSE IF owner = t /\ kind = "std" THEN {Wait, Panic(Err("Relock"))}
    ELSE {Wait}

\* lock.borrow() / lock.borrow_mut() on the RefCell inside the guard
RefCellBorrow(op) ==
    IF op = "lock"
    THEN IF borrow >= 0 THEN {Grant} ELSE {PanicHeld(Err("BorrowError"))}
    ELSE IF borrow = 0 THEN {Grant} ELSE {PanicHeld(Err("BorrowMutError"))}

\* std_mutex.rs / spin.rs lock and lock_mut, up to the call of f
GuardAcquire(t, op) ==
    LET first == IF cfg_test THEN TryLockUnwrap ELSE BlockingLock(t)
    IN  (first \ {Grant}) \cup (IF Grant \in first THEN RefCellBorrow(op) ELSE {})

\* critical(|cs| f(&mut *self.borrow(cs).borrow_mut())): the critical section
\* is entered (it nests for the thread that is inside), then the RefCell is
\* borrowed mutably, by lock as well as by lock_mut.
CsAcquire_NoBorrowCheck(t) == IF csOwner \notin {0, t} THEN {Wait} ELSE {Grant}
CsAcquire(t) ==
    IF csOwner \notin {0, t} THEN {Wait}
    ELSE IF borrow = 0 THEN {Grant} ELSE {Panic(Err("BorrowMutError"))}

Acquisition(t, op) ==
    CASE kind = "context" -> ContextAcquire
      [] kind = "cs"      -> CsAcquire(t)
      [] OTHER            -> GuardAcquire(t, op)

\* ------------------------------------------------------- frames, records
NewFrame(op, f, nested) ==
    [first |-> ncalls = 0, op |-> op, f |-> f, st |-> "active", lvl |-> level,
     nested |-> nested, inv |-> 0, ran |-> 0, cret |-> Unit, exp |-> expect]

Rec(fr, outcome, err) ==
    [first |-> fr.first, op |-> fr.op, f |-> fr.f, lvl |-> fr.lvl,
     nested |-> fr.nested, outcome |-> outcome, inv |-> fr.inv, ran |-> fr.ran,
     cret |-> fr.cret,
     result |-> IF outcome = "returned" THEN AccessorResult(fr) ELSE Unit,
     err |-> err, exp |-> fr.exp]

\* The locks and borrows left after the active frames ps are dropped
\* (their guards, Refs and critical sections go out of scope).
AfterPop_Leak(ps, panicking) ==
    [owner |-> owner, poisoned |-> poisoned, borrow |-> borrow,
     csOwner |-> csOwner, csDepth |-> csDepth]
AfterPop(ps, panicking) ==
    LET n == Len(ps)
        excl == \E i \in 1 .. n : ps[i].op = "lock_mut"
    IN  CASE kind \in {"std", "spin"} ->
               [owner    |-> IF n > 0 THEN 0 ELSE owner,
                poisoned |-> poisoned \/ (kind = "std" /\ panicking /\ n > 0),
                borrow   |-> IF n = 0 THEN borrow ELSE IF excl THEN 0 ELSE borrow - n,
                csOwner  |-> csOwner, csDepth |-> csDepth]
          [] kind = "cs" ->
               [owner |-> owner, poisoned |-> poisoned,
                borrow   |-> IF n > 0 THEN 0 ELSE borrow,
                csOwner  |-> IF csDepth - n = 0 THEN 0 ELSE csOwner,
                csDepth  |-> csDepth - n]
          [] OTHER ->
               [owner |-> owner, poisoned |-> poisoned, borrow |-> borrow,
                csOwner |-> csOwner, csDepth |-> csDepth]

SetLocks(r) ==
    /\ owner' = r.owner
    /\ poisoned' = r.poisoned
    /\ borrow' = r.borrow
    /\ csOwner' = r.csOwner
    /\ csDepth' = r.csDepth

\* Call-stack depth at which the running context started (0 for a thread).
Base(t) == IF kind = "context" /\ istack # <<>> THEN Last(istack).depth ELSE 0

\* f(..) as the accessor calls it: what the closure leaves in the protected
\* value and what it returns.
Body(op, f, d) == IF op = "lock" THEN LockBody(f, d) ELSE LockMutBody(f, d)

\* The frame of a granted call: f has been invoked once; unless it is a rec
\* closure its body has run.  exp notes the value the earlier granted lock_mut
\* calls should have left.
Invoke_Skipped(fr) ==
    [fr EXCEPT !.st = "active", !.inv = 0, !.ran = 1, !.exp = expect]
Invoke(fr) ==
    [fr EXCEPT !.st = "active", !.inv = 1, !.exp = expect,
               !.ran = IF fr.f.name = "rec" THEN 0 ELSE 1,
               !.cret = IF fr.f.name = "rec" THEN Unit ELSE Body(fr.op, fr.f, data).ret]

\* The call fr of thread t, made on top of the frames s, meets outcome o.
\*   grant : the closure is invoked and fr becomes the innermost active frame;
\*           a closure other than rec runs its body, a rec closure goes on
\*           with its inner call (action Call)
\*   wait  : the caller blocks in lock() / spins / waits for the critical section
\*   panic : the call ends; the panic unwinds k enclosing frames of the running
\*           context before it is caught (all of them when nothing catches it)
Enter(t, s, fr, o) ==
    /\ UNCHANGED <<kind, cfg_test, LEVEL, init, level, istack, instances, other>>
    /\ started' = IF t > started THEN t ELSE started
    /\ dec' = IF instances = 2 THEN [dec EXCEPT ![1][level] = @ \cup {o.o}] ELSE dec
    /\ CASE o.o = "grant" ->
              /\ stack' = [stack EXCEPT ![t] = Append(s, Invoke(fr))]
              /\ data' = IF fr.f.name = "rec" THEN data ELSE Body(fr.op, fr.f, data).data
              /\ FLAG' = ClosureFlag(fr.f, FLAG)
              /\ expect' = IF fr.op = "lock_mut" THEN ClosureData(fr.f, expect) ELSE expect
              /\ owner' = IF kind \in {"std", "spin"} THEN t ELSE owner
              /\ borrow' = CASE kind = "context" -> borrow
                             [] kind = "cs"      -> 0 - 1
                             [] OTHER -> IF fr.op = "lock" THEN borrow + 1 ELSE 0 - 1
              /\ csOwner' = IF kind = "cs" THEN t ELSE csOwner
              /\ csDepth' = IF kind = "cs" THEN csDepth + 1 ELSE csDepth
              /\ UNCHANGED <<poisoned, ended>>
         [] o.o = "wait" ->
              /\ stack' = [stack EXCEPT ![t] = Append(s, [fr EXCEPT !.st = "wait"])]
              /\ UNCHANGED <<data, FLAG, expect, owner, poisoned, borrow, csOwner, csDepth, ended>>
         [] OTHER ->
              \E k \in 0 .. (Len(s) - Base(t)) :
                 LET ps   == SubSeq(s, Len(s) - k + 1, Len(s))
                     r    == AfterPop(ps, TRUE)
                 IN  /\ stack' = [stack EXCEPT ![t] = SubSeq(s, 1, Len(s) - k)]
                     /\ SetLocks([r EXCEPT !.poisoned = @ \/ (kind = "std" /\ o.guard)])
                     /\ ended' = <<Rec(fr, "panicked", o.err)>> \o
                                 [i \in 1 .. k |-> Rec(ps[k + 1 - i], "unwound", o.err)]
                     /\ UNCHANGED <<data, FLAG, expect>>

\* ----------------------------------------------------------------- actions
\* mutex.lock(f) / mutex.lock_mut(f) is called by thread t: from outside any
\* closure of the running context, or as the body of a rec closure.
Call(t, op, f) ==
    /\ ncalls + (IF f.name = "rec" THEN 2 ELSE 1) <= MaxCalls
    /\ kind = "context" => t = 1
    /\ t <= started + 1
    /\ LET s      == stack[t]
           inside == Len(s) > Base(t)
           s1     == IF inside THEN [s EXCEPT ![Len(s)].ran = 1] ELSE s
       IN  /\ Len(s) + (IF f.name = "rec" THEN 2 ELSE 1) <= MaxDepth
           /\ inside => /\ Last(s).st = "active"
                        /\ Last(s).f.name = "rec"
                        /\ Last(s).ran = 0
           /\ ncalls' = ncalls + 1
           /\ clean' = (clean /\ s = <<>>)
           /\ \E o \in Acquisition(t, op) : Enter(t, s1, NewFrame(op, f, s # <<>>), o)

\* A waiting call of thread t gets the lock (or the critical section).
Acquire(t) ==
    /\ stack[t] # <<>>
    /\ Last(stack[t]).st = "wait"
    /\ UNCHANGED <<ncalls, clean>>
    /\ \E o \in Acquisition(t, Last(stack[t]).op) \ {Wait} :
          Enter(t, Front(stack[t]), Last(stack[t]), o)

\* The innermost closure of thread t has returned and so does its accessor:
\* the guard, the Ref and the critical section are dropped.
Return(t) ==
    /\ Len(stack[t]) > Base(t)
    /\ LET fr == Last(stack[t])
       IN  /\ fr.st = "active"
           /\ fr.ran = 1
           /\ stack' = [stack EXCEPT ![t] = Front(stack[t])]
           /\ SetLocks(AfterPop(<<fr>>, FALSE))
           /\ ended' = <<Rec(fr, "returned", NoErr)>>
    /\ UNCHANGED <<kind, cfg_test, LEVEL, init, data, FLAG, level, istack, ncalls,
                   started, expect, clean, instances, other, dec>>

\* Single core: a context of a more urgent level interrupts the running one.
HigherPriority(a, b) == a < b

Preempt(l) ==
    /\ kind = "context"
    /\ Len(istack) < MaxNest
    /\ HigherPriority(l, level)
    /\ istack' = Append(istack, [lvl |-> level, depth |-> Len(stack[1])])
    /\ level' = l
    /\ UNCHANGED <<kind, cfg_test, LEVEL, init, data, FLAG, owner, poisoned, borrow,
                   csOwner, csDepth, stack, ncalls, started, expect, clean, ended,
                   instances, other, dec>>

\* The interrupting context is done and the interrupted one goes on.
Resume ==
    /\ kind = "context"
    /\ istack # <<>>
    /\ Len(stack[1]) = Last(istack).depth
    /\ level' = Last(istack).lvl
    /\ istack' = Front(istack)
    /\ UNCHANGED <<kind, cfg_test, LEVEL, init, data, FLAG, owner, poisoned, borrow,
                   csOwner, csDepth, stack, ncalls, started, expect, clean, ended,
                   instances, other, dec>>

\* The state after new(init), whatever the implementation.
InitOne ==
    /\ kind \in Kinds
    /\ cfg_test \in (IF kind \in {"std", "spin"} THEN BOOLEAN ELSE {FALSE})
    /\ LEVEL \in (IF kind = "context" THEN Levels ELSE {0})
    /\ level \in (IF kind = "context" THEN Levels ELSE {0})
    /\ init \in Values
    /\ data = New(init)
    /\ FLAG = FALSE
    /\ owner = 0
    /\ poisoned = FALSE
    /\ borrow = 0
    /\ csOwner = 0
    /\ csDepth = 0
    /\ istack = <<>>
    /\ stack = [t \in Threads |-> <<>>]
    /\ ncalls = 0
    /\ started = 0
    /\ expect = init
    /\ clean = TRUE
    /\ ended = <<>>
    /\ dec = [i \in 1 .. 2 |-> [l \in Levels |-> {}]]

Init ==
    /\ InitOne
    /\ instances = 1
    /\ other = [init |-> 0, data |-> 0]

Next ==
    \/ \E t \in Threads, op \in Ops : \E f \in FnsOf(op) : Call(t, op, f)
    \/ \E t \in Threads : Acquire(t)
    \/ \E t \in Threads : Return(t)
    \/ \E l \in Levels : Preempt(l)
    \/ Resume

Spec == Init /\ [][Next]_vars

\* ------------------------------------------- two instances of one type
\* Mutex<Interface, Data, ContextType, LEVEL> holds only data: and two marker
\* fields; the reporter and LEVEL belong to the type.  A second value of the
\* same type is created over a value of its own and called from the core.
PairInit ==
    /\ InitOne
    /\ kind = "context"
    /\ instances = 2
    /\ \E v \in Values \ {init} : other = [init |-> v, data |-> New(v)]

\* A whole call of lock / lock_mut on the second instance, with a closure that
\* makes no call itself and touches nothing but the protected value: the level
\* is queried and checked, then f runs.
CallOther(op, f) ==
    /\ instances = 2
    /\ ncalls < MaxCalls
    /\ f.name \notin {"rec", "flag"}
    /\ ncalls' = ncalls + 1
    /\ \E o \in ContextAcquire :
          /\ dec' = [dec EXCEPT ![2][level] = @ \cup {o.o}]
          /\ other' = IF o.o = "grant"
                         THEN [other EXCEPT !.data = Body(op, f, other.data).data]
                         ELSE other
    /\ UNCHANGED <<kind, cfg_test, LEVEL, init, data, FLAG, owner, poisoned, borrow,
                   csOwner, csDepth, level, istack, stack, started, expect, clean,
                   ended, instances>>

\* The closures of this specification touch nothing but the protected value and
\* make no call: the decision does not depend on the closure.
PairNext ==
    \/ \E op \in Ops : \E f \in FnsOf(op) : f.name \notin {"rec", "flag"} /\ Call(1, op, f)
    \/ \E op \in Ops : \E f \in FnsOf(op) : CallOther(op, f)
    \/ Return(1)
    \/ \E l \in Levels : Preempt(l)
    \/ Resume

SpecPair == PairInit /\ [][PairNext]_vars

\* ------------------------------------------------------------- properties
Frames == {<<t, i>> : t \in Threads, i \in 1 .. MaxCalls}
InProgress == {p \in Frames : p[2] <= Len(stack[p[1]])}
FrameAt(p) == stack[p[1]][p[2]]
ActiveFrames == {p \in InProgress : FrameAt(p).st = "active"}
WaitingFrames == {p \in InProgress : FrameAt(p).st = "wait"}
Ended == {ended[i] : i \in 1 .. Len(ended)}

\* A step in which thread 1 calls an accessor of the context-verified mutex.
ContextCallStep == kind = "context" /\ ncalls' = ncalls + 1

\* C1: a lock or lock_mut of the context-verified mutex made while the reporter
\* returns a level other than LEVEL panics before the closure is run: the
\* closure is not invoked (no frame, FLAG untouched) and the protected value is
\* the same after the call as before, whatever accesses came before.
C1_RejectedBeforeClosure ==
    [][(ContextCallStep /\ level # LEVEL) =>
          /\ stack' = stack
          /\ data' = data
          /\ FLAG' = FLAG
          /\ Len(ended') = 1
          /\ ended'[1].outcome = "panicked"
          /\ ended'[1].inv = 0
          /\ ended'[1].ran = 0]_vars

C1_Witness ==
    /\ kind = "context"
    /\ ended # <<>>
    /\ ended[1].outcome = "panicked"
    /\ ended[1].op = "lock_mut"
    /\ ~ended[1].first
    /\ data # init

\* C2: a lock or lock_mut of the context-verified mutex made while the reporter
\* returns LEVEL does not panic and invokes its closure exactly once, whatever
\* accesses (granted or rejected) came before.
C2_GrantedAtLevel ==
    kind = "context" =>
        /\ \A r \in Ended : r.lvl = LEVEL => r.outcome = "returned" /\ r.inv = 1
        /\ \A p \in InProgress :
              FrameAt(p).lvl = LEVEL => FrameAt(p).st = "active" /\ FrameAt(p).inv = 1

C2_Witness ==
    /\ kind = "context"
    /\ ended # <<>>
    /\ ended[1].outcome = "panicked"
    /\ stack[1] # <<>>
    /\ Last(stack[1]).lvl = LEVEL
    /\ Last(stack[1]).st = "active"
    /\ ~Last(stack[1]).first

\* C3 as stated: for every implementation at most one closure is active on
\* the instance in every reachable state.
C3_Original == Cardinality(ActiveFrames) <= 1

\* C3 as amended: for the std-backed, spin-backed and critical-section-backed
\* mutex at most one closure is active on the instance; for the
\* context-verified mutex a second closure is active only when its call was
\* made at LEVEL from inside the closure that encloses it.
C3_Amended ==
    /\ kind # "context" => Cardinality(ActiveFrames) <= 1
    /\ kind = "context" =>
          \A p \in ActiveFrames :
             p[2] > 1 =>
                /\ FrameAt(p).lvl = LEVEL
                /\ stack[1][p[2] - 1].lvl = LEVEL
                /\ stack[1][p[2] - 1].f.name = "rec"
                /\ stack[1][p[2] - 1].ran = 1

C3_Witness ==
    /\ kind \in {"std", "spin", "cs"}
    /\ ActiveFrames # {}
    /\ WaitingFrames # {}
    /\ \A p \in ActiveFrames : \A q \in WaitingFrames : p[1] # q[1]

\* C4: on the std-backed and spin-backed mutex a lock or lock_mut called from
\* inside an active closure of the same instance panics: the nested call is
\* never left waiting and never runs its closure, so no call stack holds a
\* second call in progress.
C4_NestedCallPanics ==
    kind \in {"std", "spin"} => \A t \in Threads : Len(stack[t]) <= 1

C6_WriteVisibility ==
    clean =>
       \A r \in Ended :
          (r.op = "lock" /\ r.f.name = "id" /\ r.outcome = "returned") => r.result = r.exp

C6_Witness ==
    /\ clean
    /\ init = 0
    /\ ncalls = 3
    /\ ended # <<>>
    /\ ended[1].op = "lock"
    /\ ended[1].f.name = "id"
    /\ ended[1].outcome = "returned"
    /\ ended[1].result = 2

C8_Payload ==
    kind = "context" =>
       \A r \in Ended :
          r.outcome # "returned" =>
             /\ r.err.kind = "WrongContext"
             /\ Len(r.err.args) = 2
             /\ r.err.args[1] = LEVEL
             /\ r.err.args[2] = r.lvl
             /\ r.lvl # LEVEL

C8_Witness ==
    /\ kind = "context"
    /\ ended # <<>>
    /\ ended[1].outcome = "panicked"
    /\ ended[1].op = "lock"
    /\ ended[1].err.args = <<1, 0>>
    /\ data = init

\* C9: the protected value of the context-verified mutex changes only in a
\* lock_mut whose context check passed: a lock, granted or rejected, and a
\* rejected lock_mut leave it unchanged.
C9_FrameEffect ==
    [][(kind = "context" /\ data' # data) =>
          /\ ncalls' = ncalls + 1
          /\ level = LEVEL
          /\ Len(stack'[1]) = Len(stack[1]) + 1
          /\ Last(stack'[1]).op = "lock_mut"
          /\ Last(stack'[1]).st = "active"
          /\ Last(stack'[1]).lvl = LEVEL]_vars

C9_Witness ==
    /\ kind = "context"
    /\ data # init
    /\ stack[1] # <<>>
    /\ Last(stack[1]).op = "lock_mut"
    /\ Last(stack[1]).f.name = "set"
    /\ ended # <<>>
    /\ ended[1].op = "lock"

\* C10: a granted call returns to its caller the value its closure returned,
\* and the closure's effect on shared state has happened exactly once when the
\* call has returned.
C10_ResultPropagated ==
    \A r \in Ended :
       r.outcome = "returned" =>
          /\ r.result = r.cret
          /\ r.ran = 1
          /\ r.inv = 1
          /\ r.f.name = "flag" => r.result = RetVal /\ FLAG
          /\ r.f.name \in {"inc", "set", "rec"} => r.result = Unit

C10_Witness ==
    /\ ended # <<>>
    /\ ~ended[1].nested
    /\ ended[1].outcome = "returned"
    /\ ended[1].op = "lock_mut"
    /\ ended[1].f.name = "flag"
    /\ ended[1].result = RetVal
    /\ FLAG

\* C11: two context-verified mutex instances of one parameterization enforce
\* the same level: for one reporter result every call is decided the same
\* way, whichever the instance, whatever its protected value and whatever was
\* called before on either instance.
C11_SameDecision ==
    \A l \in Levels : Cardinality(dec[1][l] \cup dec[2][l]) <= 1

C11_Witness ==
    /\ instances = 2
    /\ data # other.data
    /\ init # other.init
    /\ \A i \in 1 .. 2 : dec[i][LEVEL] = {"grant"}
    /\ \E i \in 1 .. 2 : \E l \in Levels : dec[i][l] = {"panic"}

\* The running context interrupted a closure of the instance that is still
\* active below it.
PreemptedClosure ==
    /\ kind = "context"
    /\ istack # <<>>
    /\ Last(istack).depth > 0

\* C12: on a single core, while a closure of the context-verified mutex is
\* active, every lock or lock_mut of a preempting context is rejected before
\* it touches the protected value; so whenever two closures are active on the
\* instance, the inner one was called at LEVEL from inside the outer one and
\* no interruption lies between them.
C12_PreemptionRejected ==
    [][/\ (ContextCallStep /\ PreemptedClosure) =>
             /\ level # LEVEL
             /\ stack' = stack
             /\ data' = data
             /\ FLAG' = FLAG
             /\ ended'[1].outcome = "panicked"
             /\ ended'[1].inv = 0
       /\ kind = "context" =>
             /\ \A i \in 1 .. Len(stack'[1]) :
                   /\ stack'[1][i].st = "active"
                   /\ stack'[1][i].lvl = LEVEL
                   /\ i > 1 => stack'[1][i].nested
             /\ \A j \in 1 .. Len(istack') :
                   istack'[j].depth \in {0, Len(stack'[1])}]_vars

C12_Witness ==
    /\ PreemptedClosure
    /\ Last(stack[1]).st = "active"
    /\ Last(stack[1]).op = "lock_mut"
    /\ ended # <<>>
    /\ ended[1].outcome = "panicked"
    /\ ended[1].lvl = level
    /\ ended[1].op = "lock_mut"
    /\ ended[1].nested

\* C13: the context-verified mutex does not detect re-entrance at its own
\* level: a lock or lock_mut called at LEVEL from inside an active closure of
\* the instance passes the check and its closure is invoked while the outer
\* closure is still active, also when both accesses are mutable.
C13_ReentranceGranted ==
    [][(ContextCallStep /\ Len(stack[1]) > Base(1)) =>
          /\ level = LEVEL
          /\ Len(stack'[1]) = Len(stack[1]) + 1
          /\ Last(stack'[1]).st = "active"
          /\ Last(stack'[1]).inv = 1
          /\ Last(stack'[1]).nested
          /\ \A i \in 1 .. Len(stack[1]) :
                stack'[1][i].st = "active" /\ stack'[1][i].op = stack[1][i].op
          /\ ended' = ended]_vars

C13_Witness ==
    /\ kind = "context"
    /\ Len(stack[1]) = 2
    /\ \A i \in 1 .. 2 : stack[1][i].st = "active" /\ stack[1][i].op = "lock_mut"
    /\ stack[1][1].f.name = "rec"
    /\ stack[1][2].ran = 1
    /\ data # init

\* C14: the context-verified mutex never blocks and keeps no held or poisoned
\* state: every lock or lock_mut is decided by the level the reporter returns
\* at that call alone, granted exactly when it is LEVEL and rejected by a panic
\* otherwise, no call is ever left waiting, and a rejected call leaves nothing
\* behind that a later call at LEVEL could trip over.
C14_StatelessDecision ==
    [][ContextCallStep =>
          /\ level = LEVEL =>
                /\ Len(stack'[1]) = Len(stack[1]) + 1
                /\ Last(stack'[1]).st = "active"
                /\ Last(stack'[1]).inv = 1
                /\ ended' = ended
          /\ level # LEVEL =>
                /\ Len(stack'[1]) <= Len(stack[1])
                /\ ended'[1].outcome = "panicked"
                /\ ended'[1].err.kind = "WrongContext"
          /\ WaitingFrames' = {}
          /\ owner' = 0 /\ ~poisoned' /\ borrow' = 0 /\ csOwner' = 0]_vars

C14_Witness ==
    /\ kind = "context"
    /\ istack = <<>>
    /\ level = LEVEL
    /\ ended # <<>>
    /\ ended[1].outcome = "panicked"
    /\ ended[1].lvl # LEVEL
    /\ stack[1] # <<>>
    /\ ~Last(stack[1]).nested
    /\ ~Last(stack[1]).first
    /\ Last(stack[1]).st = "active"
    /\ Last(stack[1]).ran = 1

\* C15: on the critical-section-backed mutex a lock or lock_mut called from
\* inside an active closure of the same instance, whichever of lock and
\* lock_mut the outer and the inner call are, panics instead of running the
\* inner closure: no call stack ever holds two frames, and every call made
\* from inside a closure ended with a BorrowMutError panic, its closure never
\* invoked.
C15_CsNestedFails ==
    kind = "cs" =>
        /\ \A t \in Threads : Len(stack[t]) <= 1
        /\ \A r \in Ended :
              r.nested => /\ r.outcome = "panicked"
                          /\ r.inv = 0
                          /\ r.ran = 0
                          /\ r.err.kind = "BorrowMutError"

C15_Witness ==
    /\ kind = "cs"
    /\ Len(ended) = 2
    /\ ended[1].nested
    /\ ended[1].op = "lock"
    /\ ended[1].outcome = "panicked"
    /\ ended[2].op = "lock"
    /\ ended[2].outcome = "unwound"
    /\ borrow = 0
    /\ csOwner = 0

\* The threads that have a closure of the instance active.
Holders == {t \in Threads : \E i \in 1 .. Len(stack[t]) : stack[t][i].st = "active"}

\* C16: on the std-backed and spin-backed mutex the lock is held exactly while
\* a granted call has not returned: its owner is the thread whose closure is
\* active and nobody once that call has returned, the RefCell is borrowed
\* exactly while the lock is held; and as long as a single caller has made only
\* non-nested calls, none of them panicked or was left waiting, nothing is
\* poisoned, and the mutex is unheld whenever no closure is active.
C16_HeldWhileActive ==
    kind \in {"std", "spin"} =>
        /\ \A t \in Threads : owner = t <=> t \in Holders
        /\ owner = 0 <=> Holders = {}
        /\ borrow = 0 <=> owner = 0
        /\ (clean /\ started <= 1) =>
              /\ WaitingFrames = {}
              /\ \A r \in Ended : r.outcome = "returned" /\ r.inv = 1
              /\ \A p \in InProgress : FrameAt(p).st = "active" /\ FrameAt(p).inv = 1
              /\ ~poisoned
              /\ stack[1] = <<>> => owner = 0 /\ borrow = 0

C16_Witness ==
    /\ kind \in {"std", "spin"}
    /\ clean
    /\ started = 1
    /\ ncalls = 3
    /\ ended # <<>>
    /\ ended[1].outcome = "returned"
    /\ ended[1].op = "lock_mut"
    /\ Len(stack[1]) = 1
    /\ stack[1][1].st = "active"
    /\ owner = 1

\* A step in which a thread calls an accessor of the std-backed or spin-backed
\* mutex while the lock is held.
HeldCallStep == kind \in {"std", "spin"} /\ ncalls' = ncalls + 1 /\ Held

\* The call of the step panicked on try_lock().unwrap(): its closure was not
\* invoked and nothing is left waiting.
TryLockPanicked ==
    /\ ended'[1].outcome = "panicked"
    /\ ended'[1].inv = 0
    /\ ended'[1].ran = 0
    /\ ended'[1].err.kind = (IF kind = "std" THEN "WouldBlock" ELSE "UnwrapNone")
    /\ data' = data
    /\ FLAG' = FLAG
    /\ WaitingFrames' = {}

\* The call of the step was left waiting in lock(), its closure not invoked.
LeftWaiting ==
    /\ Cardinality(WaitingFrames') = Cardinality(WaitingFrames) + 1
    /\ \A p \in WaitingFrames' : FrameAt(p)'.inv = 0
    /\ ended' = ended
    /\ data' = data
    /\ FLAG' = FLAG

\* C17 as stated: in a test build a call made while the instance is held, by
\* the calling thread or by another one, panics at once on try_lock().unwrap()
\* without running its closure, and no call ever waits; in a non-test build the
\* same call waits on lock().
C17_Original ==
    [][/\ cfg_test => WaitingFrames' = {}
       /\ HeldCallStep => IF cfg_test THEN TryLockPanicked ELSE LeftWaiting]_vars

\* C17 as amended: as stated, except that in a non-test build a call on the
\* std-backed mutex made by the thread that holds the lock either waits forever
\* or panics, its closure not run in either case.
C17_Amended ==
    [][/\ cfg_test => WaitingFrames' = {}
       /\ HeldCallStep =>
             IF cfg_test THEN TryLockPanicked
             ELSE \/ LeftWaiting
                  \/ /\ kind = "std"
                     /\ ended'[1].nested
                     /\ ended'[1].outcome = "panicked"
                     /\ ended'[1].err.kind = "Relock"
                     /\ ended'[1].inv = 0
                     /\ data' = data
                     /\ FLAG' = FLAG]_vars

C17_Witness ==
    /\ kind \in {"std", "spin"}
    /\ cfg_test
    /\ owner = 1
    /\ stack[1] # <<>>
    /\ Last(stack[1]).st = "active"
    /\ stack[2] = <<>>
    /\ ended # <<>>
    /\ ended[1].outcome = "panicked"
    /\ ~ended[1].nested
    /\ ended[1].err.kind \in {"WouldBlock", "UnwrapNone"}

==========================================================================
